---- MODULE Spec2Model ----
(***************************************************************************)
(* Model of the warehouse economic calculator (src/app.py): the area       *)
(* allocation, the one-month financial model, the input validation, the    *)
(* minimum-loan formula, the multi-month projection, the breakeven solver  *)
(* calculate_bep, and the script run with its scenario files.              *)
(*                                                                         *)
(* Numbers.  The program computes with Python ints and floats.  The model  *)
(* computes with exact rationals <<n, d>> (d > 0, lowest terms), so every  *)
(* product, quotient, sum and comparison of the source is carried out as   *)
(* written, without floating-point rounding.                               *)
(***************************************************************************)
EXTENDS Integers, Sequences, FiniteSets, TLC

VARIABLES
    pc,               \* position of the running computation
    params,           \* the parameter mapping the computation works on
    areas,            \* result of calculate_areas
    inputs_valid,     \* result of validate_inputs
    fin,              \* result of calculate_financials (base_financials)
    disable_extended, \* the "disable extended parameters" checkbox
    min_loan_amount,  \* result of the minimum-loan computation
    loan_mode,        \* which branch of the minimum-loan computation ran
    param_key,        \* calculate_bep: name of the parameter solved for
    base_value,       \* calculate_bep: base value of that parameter
    attempt,          \* calculate_bep: index of the bracket attempt
    low_multiplier,   \* calculate_bep: multiplier of the low bound
    high_multiplier,  \* calculate_bep: multiplier of the high bound
    low,              \* calculate_bep: low bound of the bracket
    high,             \* calculate_bep: high bound of the bracket
    profit_low,       \* calculate_bep: stored profit at the low bound
    profit_high,      \* calculate_bep: stored profit at the high bound
    iter,             \* calculate_bep: bisection iterations performed
    bep_result,       \* calculate_bep: returned value
    evals,            \* calculate_bep: calls of profit_at_param so far
    tried,            \* calculate_bep: the brackets evaluated so far
    metrics,          \* result of calculate_additional_metrics
    month,            \* project_financials: months appended so far
    cumulative_profit,          \* project_financials: running profit sum
    current_rental_cost_per_m2, \* project_financials: rent of the month
    projections,      \* project_financials: the rows appended so far
    shares,           \* st.session_state.shares
    widgets,          \* values held by the input widgets across runs
    uploaded,         \* content of the file in the scenario uploader
    scenario_json,    \* text offered for download by save_scenario
    load_message,     \* message reported by load_scenario
    calls,            \* computation functions invoked in this script run
    run,              \* index of the script run
    call,             \* breakeven tab: index of the calculate_bep call
    slider_log,       \* sidebar: key, slider value and displayed share
    remaining_share   \* sidebar: share left unallocated after the sliders

vars == <<pc, params, areas, inputs_valid, fin, disable_extended,
          min_loan_amount, loan_mode, param_key, base_value, attempt,
          low_multiplier, high_multiplier, low, high, profit_low,
          profit_high, iter, bep_result, evals, tried, metrics, month,
          cumulative_profit, current_rental_cost_per_m2, projections,
          shares, widgets, uploaded, scenario_json, load_message, calls,
          run, call, slider_log, remaining_share>>

bepVars == <<param_key, base_value, attempt, low_multiplier, high_multiplier,
             low, high, profit_low, profit_high, iter, bep_result, evals,
             tried>>

scriptVars ==
    <<inputs_valid, disable_extended, min_loan_amount, loan_mode, metrics>>

projVars ==
    <<month, cumulative_profit, current_rental_cost_per_m2, projections>>

sessionVars ==
    <<shares, widgets, uploaded, scenario_json, load_message, calls, run>>

tabVars == <<call>>

sidebarVars == <<slider_log, remaining_share>>

----------------------------------------------------------------------------
(* Exact rational arithmetic standing for Python's numeric operators.      *)

Abs(n) == IF n < 0 THEN -n ELSE n

RECURSIVE GCD(_, _)
GCD(a, b) == IF b = 0 THEN a ELSE GCD(b, a % b)

\* the rational n/d in lowest terms with a positive denominator
RNorm(n, d) ==
    LET s == IF d < 0 THEN -1 ELSE 1
        g == GCD(Abs(n), Abs(d))
    IN  <<(s * n) \div g, (s * d) \div g>>

I(n) == <<n, 1>>
Q(n, d) == RNorm(n, d)

\* sums and comparisons go through the least common denominator
RAdd(x, y) ==
    LET g == GCD(x[2], y[2])
    IN  RNorm(x[1] * (y[2] \div g) + y[1] * (x[2] \div g),
              (x[2] \div g) * y[2])
RSub(x, y) == RAdd(x, <<-y[1], y[2]>>)
\* products cancel common factors before multiplying
RMul(x, y) ==
    LET g == GCD(Abs(x[1]), y[2])
        h == GCD(Abs(y[1]), x[2])
    IN  RNorm((x[1] \div g) * (y[1] \div h), (x[2] \div h) * (y[2] \div g))
\* x / y, for y # 0 (Python raises ZeroDivisionError otherwise)
RDiv(x, y) == RMul(x, RNorm(y[2], y[1]))
RLt(x, y) ==
    LET g == GCD(x[2], y[2])
    IN  x[1] * (y[2] \div g) < y[1] * (x[2] \div g)
RLe(x, y) == x = y \/ RLt(x, y)
RGt(x, y) == RLt(y, x)
RGe(x, y) == RLe(y, x)
\* Python's max(x, y) and min(x, y)
RMax(x, y) == IF RGt(y, x) THEN y ELSE x
RMin(x, y) == IF RLt(y, x) THEN y ELSE x
RAbs(x) == <<Abs(x[1]), x[2]>>

Zero == I(0)
One == I(1)
None == "None"

----------------------------------------------------------------------------
(* calculate_areas, src/app.py:96-111                                      *)

\* useful_area * 2 * shelves_per_m2, lines 100-101
double_shelf_area_once(total_area, useful_area_ratio, shelves_per_m2) ==
    RMul(RMul(total_area, useful_area_ratio), shelves_per_m2)

double_shelf_area(total_area, useful_area_ratio, shelves_per_m2) ==
    LET useful_area == RMul(total_area, useful_area_ratio)
    IN  RMul(RMul(useful_area, I(2)), shelves_per_m2)

calculate_areas(total_area, useful_area_ratio, shelves_per_m2, storage_share, loan_share, vip_share, short_term_share) ==
    LET dsa == double_shelf_area(total_area, useful_area_ratio, shelves_per_m2)
    IN  [storage_area    |-> RMul(dsa, storage_share),
         loan_area       |-> RMul(dsa, loan_share),
         vip_area        |-> RMul(dsa, vip_share),
         short_term_area |-> RMul(dsa, short_term_share)]

----------------------------------------------------------------------------
(* calculate_financials, src/app.py:131-229.  a is the mapping of the 25   *)
(* keyword arguments.                                                      *)

FinKeys == {"storage_area", "loan_area", "vip_area", "short_term_area",
            "storage_items_density", "loan_items_density",
            "vip_items_density", "short_term_items_density", "storage_fee",
            "item_evaluation", "item_realization_markup",
            "average_item_value", "loan_interest_rate",
            "realization_share_storage", "realization_share_loan",
            "realization_share_vip", "realization_share_short_term",
            "rental_cost_per_m2", "total_area", "salary_expense",
            "miscellaneous_expenses", "depreciation_expense",
            "default_probability", "vip_extra_fee", "short_term_daily_rate"}

\* loan_interest_rate = max(loan_interest_rate, 0), line 176
clamp_rate_absent(rate) == rate

clamp_rate(rate) == RMax(rate, Zero)

\* total_income, lines 204-205
sum_income_no_vip(storage_income, loan_income_after_realization, realization_income, vip_income, short_term_income) ==
    RAdd(RAdd(RAdd(storage_income, loan_income_after_realization),
              realization_income),
         short_term_income)

sum_income(storage_income, loan_income_after_realization, realization_income, vip_income, short_term_income) ==
    RAdd(RAdd(RAdd(RAdd(storage_income, loan_income_after_realization),
                   realization_income),
              vip_income),
         short_term_income)

calculate_financials(a) ==
    LET stored_items == RMul(a.storage_area, a.storage_items_density)
        total_items_loan == RMul(a.loan_area, a.loan_items_density)
        vip_stored_items == RMul(a.vip_area, a.vip_items_density)
        short_term_stored_items ==
            RMul(a.short_term_area, a.short_term_items_density)
        storage_income == RMul(a.storage_area, a.storage_fee)
        loan_interest_rate == clamp_rate(a.loan_interest_rate)
        loan_amount ==
            RMul(RMul(a.loan_area, a.average_item_value), a.item_evaluation)
        loan_income_month ==
            RMul(RMul(loan_amount, RDiv(loan_interest_rate, I(100))), I(30))
        markup == RDiv(a.item_realization_markup, I(100))
        realization_items_storage ==
            RMul(stored_items, a.realization_share_storage)
        realization_items_loan ==
            RMul(total_items_loan, a.realization_share_loan)
        realization_items_vip ==
            RMul(vip_stored_items, a.realization_share_vip)
        realization_items_short_term ==
            RMul(short_term_stored_items, a.realization_share_short_term)
        realization_income_storage ==
            RMul(RMul(realization_items_storage, a.average_item_value), markup)
        realization_income_loan ==
            RMul(RMul(realization_items_loan, a.average_item_value), markup)
        realization_income_vip ==
            RMul(RMul(realization_items_vip, a.average_item_value), markup)
        realization_income_short_term ==
            RMul(RMul(realization_items_short_term, a.average_item_value),
                 markup)
        realization_income ==
            RAdd(RAdd(RAdd(realization_income_storage,
                           realization_income_loan),
                      realization_income_vip),
                 realization_income_short_term)
        loan_income_after_realization ==
            RMul(RMul(loan_income_month, RSub(One, a.realization_share_loan)),
                 RSub(One, a.default_probability))
        vip_income == RMul(a.vip_area, RAdd(a.storage_fee, a.vip_extra_fee))
        short_term_income ==
            RMul(RMul(a.short_term_area, a.short_term_daily_rate), I(30))
        total_income ==
            sum_income(storage_income, loan_income_after_realization,
                       realization_income, vip_income, short_term_income)
        rental_expense == RMul(a.total_area, a.rental_cost_per_m2)
        total_expenses ==
            RAdd(RAdd(RAdd(rental_expense, a.salary_expense),
                      a.miscellaneous_expenses),
                 a.depreciation_expense)
        profit == RSub(total_income, total_expenses)
        daily_storage_fee == RDiv(a.storage_fee, I(30))
    IN  [total_income                  |-> total_income,
         total_expenses                |-> total_expenses,
         profit                        |-> profit,
         realization_income            |-> realization_income,
         storage_income                |-> storage_income,
         loan_income_after_realization |-> loan_income_after_realization,
         vip_income                    |-> vip_income,
         short_term_income             |-> short_term_income,
         rental_expense                |-> rental_expense,
         salary_expense                |-> a.salary_expense,
         miscellaneous_expenses        |-> a.miscellaneous_expenses,
         depreciation_expense          |-> a.depreciation_expense,
         loan_interest_rate            |-> loan_interest_rate,
         daily_storage_fee             |-> daily_storage_fee]

----------------------------------------------------------------------------
(* validate_inputs, src/app.py:40-76: the list of checks that fail.        *)

ShareKeys == <<"storage_share", "loan_share", "vip_share", "short_term_share">>

ShareKeySet == {ShareKeys[i] : i \in 1..4}

\* line 60: 1.0 + 1e-6
share_sum_limit_loose == I(2)

share_sum_limit == RAdd(One, Q(1, 1000000))

validate_errors(p) ==
    (IF RLe(p.total_area, Zero) THEN {"total_area"} ELSE {})
    \cup (IF RLe(p.rental_cost_per_m2, Zero)
          THEN {"rental_cost_per_m2"} ELSE {})
    \cup (IF RLt(p.loan_interest_rate, Zero)
          THEN {"loan_interest_rate"} ELSE {})
    \cup (IF RLt(p.storage_fee, Zero) THEN {"storage_fee"} ELSE {})
    \cup (IF ~(RLe(Zero, p.useful_area_ratio) /\ RLe(p.useful_area_ratio, One))
          THEN {"useful_area_ratio"} ELSE {})
    \cup {ShareKeys[i] : i \in {j \in 1..4 :
              ~(RLe(Zero, p[ShareKeys[j]]) /\ RLe(p[ShareKeys[j]], One))}}
    \cup (LET total_shares ==
                  RAdd(RAdd(RAdd(p.storage_share, p.loan_share), p.vip_share),
                       p.short_term_share)
          IN  IF RGt(total_shares, share_sum_limit)
              THEN {"total_shares"} ELSE {})
    \cup (IF RLt(p.average_item_value, Zero)
          THEN {"average_item_value"} ELSE {})
    \cup (IF RLt(p.salary_expense, Zero) THEN {"salary_expense"} ELSE {})
    \cup (IF RLt(p.miscellaneous_expenses, Zero)
          THEN {"miscellaneous_expenses"} ELSE {})
    \cup (IF RLt(p.depreciation_expense, Zero)
          THEN {"depreciation_expense"} ELSE {})
    \cup (IF RLt(p.default_probability, Zero) \/ RGt(p.default_probability, One)
          THEN {"default_probability"} ELSE {})

validate_inputs(p) == validate_errors(p) = {}

----------------------------------------------------------------------------
(* Bounds of the input sets.                                               *)

MaxTotalArea == 2     \* total_area ranges over -1 .. MaxTotalArea
MaxShelves == 2       \* shelves_per_m2 ranges over -1 .. MaxShelves
ShareDen == 3         \* shares range over 0, 1/ShareDen, ..., 1
MaxArea == 2          \* storage_area ranges over 0 .. MaxArea
MaxFee == 2           \* storage_fee ranges over 0 .. MaxFee
MaxRate == 2          \* loan_interest_rate ranges over -MaxRate/2 .. MaxRate/2
MaxSolverArea == 5    \* calculate_bep: storage_area is 0, 2 or MaxSolverArea
MaxSalary == 3        \* calculate_bep: salary_expense ranges over 0 .. MaxSalary

Unset == "unset"

Shares == {Q(k, ShareDen) : k \in 0..ShareDen}

BepIdle ==
    /\ param_key = Unset /\ base_value = Unset /\ attempt = 0
    /\ low_multiplier = Unset /\ high_multiplier = Unset
    /\ low = Unset /\ high = Unset
    /\ profit_low = Unset /\ profit_high = Unset
    /\ iter = 0 /\ bep_result = Unset /\ evals = 0 /\ tried = <<>>

ScriptIdle ==
    /\ inputs_valid = Unset /\ disable_extended = FALSE
    /\ min_loan_amount = Unset /\ loan_mode = Unset /\ metrics = Unset

TabIdle == call = 1

SidebarIdle == slider_log = <<>> /\ remaining_share = Unset

ProjIdle ==
    /\ month = 0 /\ cumulative_profit = Unset
    /\ current_rental_cost_per_m2 = Unset /\ projections = <<>>

SessionIdle ==
    /\ shares = Unset /\ widgets = Unset /\ uploaded = Unset
    /\ scenario_json = Unset /\ load_message = Unset /\ calls = <<>>
    /\ run = 0

----------------------------------------------------------------------------
(* validate_inputs applied to parameter sets that differ from a valid one  *)
(* in at most MaxDeviations fields.                                        *)

MaxDeviations == 2    \* fields in which an input differs from ValidBase

ValidBase ==
    [total_area             |-> One,
     rental_cost_per_m2     |-> One,
     loan_interest_rate     |-> Zero,
     storage_fee            |-> One,
     useful_area_ratio      |-> Q(1, 2),
     storage_share          |-> One,
     loan_share             |-> Zero,
     vip_share              |-> Zero,
     short_term_share       |-> Zero,
     average_item_value     |-> One,
     salary_expense         |-> One,
     miscellaneous_expenses |-> One,
     depreciation_expense   |-> One,
     default_probability    |-> Zero]

\* the values a field is moved to: both sides of each limit the code tests
FieldValues(k) ==
    IF k \in ShareKeySet
    THEN {Q(j, ShareDen) : j \in -1..(ShareDen + 1)}
             \cup {Q(1, 1000000), Q(2, 1000000)}
    ELSE IF k \in {"useful_area_ratio", "default_probability"}
         THEN {Q(-1, 2), Zero, One, Q(3, 2)}
         ELSE {I(-1), Zero, One}

RECURSIVE Deviations(_)
Deviations(n) ==
    IF n = 0 THEN {ValidBase}
    ELSE LET prev == Deviations(n - 1)
         IN  prev \cup UNION {UNION {{[p EXCEPT ![k] = v] :
                                          v \in FieldValues(k)} :
                                     k \in DOMAIN ValidBase} :
                              p \in prev}

ValidationInputs == Deviations(MaxDeviations)

ValidateInit ==
    /\ pc = "validate_call"
    /\ params \in ValidationInputs
    /\ areas = Unset /\ fin = Unset
    /\ ScriptIdle /\ BepIdle /\ ProjIdle /\ SessionIdle
    /\ TabIdle /\ SidebarIdle

\* lines 40-76
ApplyValidateInputs ==
    /\ pc = "validate_call"
    /\ inputs_valid' = validate_inputs(params)
    /\ pc' = "validate_done"
    /\ UNCHANGED <<params, areas, fin, disable_extended, min_loan_amount,
                   loan_mode, metrics, projVars, sessionVars, bepVars,
                   tabVars, sidebarVars>>

ValidateNext == ApplyValidateInputs

SpecValidate == ValidateInit /\ [][ValidateNext]_vars

----------------------------------------------------------------------------
(* calculate_areas applied to inputs drawn from bounded sets.              *)

AllocInputs ==
    [total_area        : {I(k) : k \in -1..MaxTotalArea},
     useful_area_ratio : {Zero, Q(1, 2), One},
     shelves_per_m2    : {I(k) : k \in -1..MaxShelves},
     storage_share     : Shares,
     loan_share        : Shares,
     vip_share         : Shares,
     short_term_share  : Shares]

AllocInit ==
    /\ pc = "alloc_call"
    /\ params \in AllocInputs
    /\ areas = Unset /\ fin = Unset
    /\ ScriptIdle /\ BepIdle /\ ProjIdle /\ SessionIdle
    /\ TabIdle /\ SidebarIdle

ApplyCalculateAreas ==
    /\ pc = "alloc_call"
    /\ areas' = calculate_areas(params.total_area, params.useful_area_ratio,
                                params.shelves_per_m2, params.storage_share,
                                params.loan_share, params.vip_share,
                                params.short_term_share)
    /\ pc' = "alloc_done"
    /\ UNCHANGED <<params, fin, scriptVars, projVars, sessionVars, bepVars,
                   tabVars, sidebarVars>>

AllocNext == ApplyCalculateAreas

SpecAlloc == AllocInit /\ [][AllocNext]_vars

----------------------------------------------------------------------------
(* calculate_financials applied to inputs drawn from bounded sets.         *)

FinInputs ==
    [storage_area                 : {I(k) : k \in 0..MaxArea},
     loan_area                    : {Zero, One},
     vip_area                     : {Zero, One},
     short_term_area              : {Zero, One},
     storage_items_density        : {I(5)},
     loan_items_density           : {I(5)},
     vip_items_density            : {I(2)},
     short_term_items_density     : {I(4)},
     storage_fee                  : {I(k) : k \in 0..MaxFee},
     item_evaluation              : {Q(4, 5)},
     item_realization_markup      : {Zero, I(20)},
     average_item_value           : {I(10)},
     loan_interest_rate           : {Q(k, 2) : k \in -MaxRate..MaxRate},
     realization_share_storage    : {Q(1, 2)},
     realization_share_loan       : {Q(1, 2), One},
     realization_share_vip        : {Q(1, 2)},
     realization_share_short_term : {Q(1, 2)},
     rental_cost_per_m2           : {One},
     total_area                   : {I(2)},
     salary_expense               : {Zero, I(3)},
     miscellaneous_expenses       : {One},
     depreciation_expense         : {One},
     default_probability          : {Zero, Q(1, 20), One},
     vip_extra_fee                : {I(2)},
     short_term_daily_rate        : {One}]

FinInit ==
    /\ pc = "fin_call"
    /\ params \in FinInputs
    /\ areas = Unset /\ fin = Unset
    /\ ScriptIdle /\ BepIdle /\ ProjIdle /\ SessionIdle
    /\ TabIdle /\ SidebarIdle

ApplyCalculateFinancials ==
    /\ pc = "fin_call"
    /\ fin' = calculate_financials(params)
    /\ pc' = "fin_done"
    /\ UNCHANGED <<params, areas, scriptVars, projVars, sessionVars, bepVars,
                   tabVars, sidebarVars>>

FinNext == ApplyCalculateFinancials

SpecFin == FinInit /\ [][FinNext]_vars

----------------------------------------------------------------------------
(* The script run, src/app.py:795-904: params is collected from the        *)
(* widgets, the areas are computed and merged in, the inputs are           *)
(* validated, and for valid inputs the financials and the minimum loan     *)
(* amount are computed.                                                    *)

\* the exception raised by a division by zero, in the place of the quotient
ZeroDivisionError == <<"ZeroDivisionError">>

\* the condition of line 894
risk_adjusted_mode_any_rate(disabled, rate) == ~disabled

risk_adjusted_mode(disabled, rate) == ~disabled /\ RGt(rate, Zero)

\* lines 893-904: the amount and the branch that produced it
min_loan(p, base_financials, disabled) ==
    IF risk_adjusted_mode(disabled, p.loan_interest_rate)
    THEN LET average_growth_factor ==
                 RAdd(One, RMul(p.monthly_rent_growth,
                                RDiv(p.time_horizon, I(2))))
             adjusted_daily_storage_fee ==
                 RMul(base_financials.daily_storage_fee, average_growth_factor)
             divisor ==
                 RMul(RMul(RDiv(p.loan_interest_rate, I(100)),
                           RSub(One, p.default_probability)),
                      p.liquidity_factor)
         IN  [mode   |-> "risk_adjusted",
              amount |-> IF divisor = Zero THEN ZeroDivisionError
                         ELSE RMul(p.safety_factor,
                                   RDiv(adjusted_daily_storage_fee, divisor))]
    ELSE IF RGt(p.loan_interest_rate, Zero)
         THEN [mode   |-> "basic_division",
               amount |-> RDiv(base_financials.daily_storage_fee,
                               RDiv(p.loan_interest_rate, I(100)))]
         ELSE [mode |-> "basic_zero", amount |-> Zero]

\* the extended parameters: the widget values, or the defaults of lines
\* 787-792 when the extended parameters are disabled
ExtendedInputs(disabled) ==
    IF disabled
    THEN [time_horizon        : {One},
          monthly_rent_growth : {Zero},
          default_probability : {Zero},
          liquidity_factor    : {One},
          safety_factor       : {One}]
    ELSE [time_horizon        : {One, I(6)},
          monthly_rent_growth : {Q(1, 100)},
          default_probability : {Zero, Q(1, 20), One},
          liquidity_factor    : {Zero, One},
          safety_factor       : {Q(6, 5)}]

BasicInputs ==
    [total_area                   : {Zero, I(2)},
     rental_cost_per_m2           : {One},
     useful_area_ratio            : {Q(1, 2)},
     storage_share                : Shares,
     loan_share                   : Shares,
     vip_share                    : {Zero},
     short_term_share             : {Zero},
     storage_fee                  : {I(k) : k \in 0..MaxFee},
     shelves_per_m2               : {I(3)},
     short_term_daily_rate        : {One},
     item_evaluation              : {Q(4, 5)},
     item_realization_markup      : {I(20)},
     average_item_value           : {I(10)},
     loan_interest_rate           : {Q(k, 2) : k \in -1..MaxRate},
     realization_share_storage    : {Q(1, 2)},
     realization_share_loan       : {Q(1, 2)},
     realization_share_vip        : {Q(1, 2)},
     realization_share_short_term : {Q(1, 2)},
     salary_expense               : {I(3)},
     miscellaneous_expenses       : {One},
     depreciation_expense         : {One},
     storage_items_density        : {I(5)},
     loan_items_density           : {I(5)},
     vip_items_density            : {I(2)},
     short_term_items_density     : {I(4)},
     vip_extra_fee                : {I(2)}]


----------------------------------------------------------------------------
(* calculate_bep, src/app.py:232-302.  params holds the keyword arguments  *)
(* (kwargs); one action per pass of the bracket loop and of the bisection  *)
(* loop.                                                                   *)

max_iterations == 5            \* line 273
multiplier_step_one == One
multiplier_step == Q(1, 2)     \* line 274
bisect_iterations == 100       \* line 290
tolerance == Q(1, 100)         \* line 293

\* lines 262-268: the profit with the parameter param_key set to value
profit_at_param(kwargs, key, value) ==
    calculate_financials([kwargs EXCEPT ![key] = value]).profit

\* line 276: for attempt in range(max_iterations)
attempts_left_forever(n) == TRUE

attempts_left(n) == n < max_iterations

\* line 283: the bracket does not contain a sign change
same_sign_or_zero(pl, ph) ==
    \/ RGe(pl, Zero) /\ RGe(ph, Zero)
    \/ RLe(pl, Zero) /\ RLe(ph, Zero)

same_strict_sign(pl, ph) ==
    \/ RGt(pl, Zero) /\ RGt(ph, Zero)
    \/ RLt(pl, Zero) /\ RLt(ph, Zero)

\* line 277: low = base_value * low_multiplier
bracket_low_clamped(base, multiplier) == RMax(RMul(base, multiplier), Zero)

bracket_low(base, multiplier) == RMul(base, multiplier)

\* line 278: high = base_value * high_multiplier
bracket_high_offset(base, multiplier) == RAdd(RMul(base, multiplier), One)

bracket_high(base, multiplier) == RMul(base, multiplier)

\* lines 291 and 301: (low + high) / 2
midpoint_outside(lo, hi) == RAdd(hi, One)

midpoint(lo, hi) == RDiv(RAdd(lo, hi), I(2))

\* line 293: the bisection returns the midpoint
bisect_stop_coarse(profit_mid, lo, hi) ==
    profit_mid = Zero \/ RLt(RSub(hi, lo), Q(1, 10))

bisect_stop(profit_mid, lo, hi) ==
    profit_mid = Zero \/ RLt(RSub(hi, lo), tolerance)

\* line 295: the midpoint replaces the high bound
replaces_high(pl, profit_mid) ==
    \/ RLt(pl, Zero) /\ RGt(profit_mid, Zero)
    \/ RGt(pl, Zero) /\ RLt(profit_mid, Zero)

BepKeys == {"storage_fee", "loan_interest_rate", "vip_extra_fee",
            "short_term_daily_rate"}

BepInputs ==
    [storage_area                 : {Zero, I(2), I(MaxSolverArea)},
     loan_area                    : {Zero, One},
     vip_area                     : {Zero, One},
     short_term_area              : {Zero, One},
     storage_items_density        : {I(5)},
     loan_items_density           : {I(5)},
     vip_items_density            : {I(2)},
     short_term_items_density     : {I(4)},
     storage_fee                  : {I(k) : k \in 0..MaxFee},
     item_evaluation              : {Q(4, 5)},
     item_realization_markup      : {Zero},
     average_item_value           : {I(10)},
     loan_interest_rate           : {One},
     realization_share_storage    : {Q(1, 2)},
     realization_share_loan       : {Q(1, 2)},
     realization_share_vip        : {Q(1, 2)},
     realization_share_short_term : {Q(1, 2)},
     rental_cost_per_m2           : {One},
     total_area                   : {One},
     salary_expense               : {I(k) : k \in 0..MaxSalary},
     miscellaneous_expenses       : {Zero},
     depreciation_expense         : {Zero},
     default_probability          : {Zero},
     vip_extra_fee                : {One},
     short_term_daily_rate        : {One}]

\* lines 1001-1012 and 1054 (the call) and 270-274 (the initial bracket)
BepInit ==
    /\ pc = "bep_loop"
    /\ params \in BepInputs
    /\ param_key \in BepKeys
    /\ base_value = params[param_key]
    /\ low_multiplier = Q(1, 2)
    /\ high_multiplier = Q(3, 2)
    /\ attempt = 0
    /\ low = Unset /\ high = Unset
    /\ profit_low = Unset /\ profit_high = Unset
    /\ iter = 0 /\ bep_result = Unset /\ evals = 0 /\ tried = <<>>
    /\ areas = Unset /\ fin = Unset
    /\ ScriptIdle /\ ProjIdle /\ SessionIdle
    /\ TabIdle /\ SidebarIdle

\* lines 277-280: the bracket of this attempt and the profit at its bounds
Bracket ==
    LET lo == bracket_low(base_value, low_multiplier)
        hi == bracket_high(base_value, high_multiplier)
    IN  [low_multiplier  |-> low_multiplier,
         high_multiplier |-> high_multiplier,
         low             |-> lo,
         high            |-> hi,
         profit_low      |-> profit_at_param(params, param_key, lo),
         profit_high     |-> profit_at_param(params, param_key, hi)]

EvaluateBracket(b) ==
    /\ low' = b.low
    /\ high' = b.high
    /\ profit_low' = b.profit_low
    /\ profit_high' = b.profit_high
    /\ evals' = evals + 2
    /\ tried' = Append(tried, b)

\* lines 276-287: both bound profits have the same strict sign; widen
BepWiden ==
    /\ pc = "bep_loop"
    /\ attempts_left(attempt)
    /\ LET b == Bracket
       IN  /\ same_strict_sign(b.profit_low, b.profit_high)
           /\ EvaluateBracket(b)
    /\ low_multiplier' = RSub(low_multiplier, multiplier_step)
    /\ high_multiplier' = RAdd(high_multiplier, multiplier_step)
    /\ attempt' = attempt + 1
    /\ UNCHANGED <<pc, params, areas, fin, scriptVars, projVars, sessionVars,
                   tabVars, sidebarVars, param_key, base_value, iter,
                   bep_result>>

\* lines 276-283, 288-290: the bracket is accepted; bisection starts
BepAccept ==
    /\ pc = "bep_loop"
    /\ attempts_left(attempt)
    /\ LET b == Bracket
       IN  /\ ~same_strict_sign(b.profit_low, b.profit_high)
           /\ EvaluateBracket(b)
    /\ iter' = 0
    /\ pc' = "bep_bisect"
    /\ UNCHANGED <<params, areas, fin, scriptVars, projVars, sessionVars,
                   tabVars, sidebarVars, param_key, base_value, attempt,
                   low_multiplier, high_multiplier, bep_result>>

\* line 302: all attempts used up
BepNotFound ==
    /\ pc = "bep_loop"
    /\ ~attempts_left(attempt)
    /\ bep_result' = None
    /\ pc' = "bep_done"
    /\ UNCHANGED <<params, areas, fin, scriptVars, projVars, sessionVars,
                   tabVars, sidebarVars, param_key, base_value, attempt,
                   low_multiplier, high_multiplier, low, high, profit_low,
                   profit_high, iter, evals, tried>>

Mid == midpoint(low, high)

\* lines 290-300: one bisection pass that does not return
BepBisectStep ==
    /\ pc = "bep_bisect"
    /\ iter < bisect_iterations
    /\ LET mid == Mid
           profit_mid == profit_at_param(params, param_key, mid)
       IN  /\ ~bisect_stop(profit_mid, low, high)
           /\ IF replaces_high(profit_low, profit_mid)
              THEN /\ high' = mid
                   /\ profit_high' = profit_mid
                   /\ UNCHANGED <<low, profit_low>>
              ELSE /\ low' = mid
                   /\ profit_low' = profit_mid
                   /\ UNCHANGED <<high, profit_high>>
    /\ evals' = evals + 1
    /\ iter' = iter + 1
    /\ UNCHANGED <<pc, params, areas, fin, scriptVars, projVars, sessionVars,
                   tabVars, sidebarVars, param_key, base_value, attempt,
                   low_multiplier, high_multiplier, bep_result, tried>>

\* lines 291-294 and 301: the bisection returns the midpoint, from inside
\* the loop or after its last pass
BepBisectReturn ==
    /\ pc = "bep_bisect"
    /\ IF iter < bisect_iterations
       THEN /\ bisect_stop(profit_at_param(params, param_key, Mid), low, high)
            /\ evals' = evals + 1
       ELSE evals' = evals
    /\ bep_result' = Mid
    /\ pc' = "bep_done"
    /\ UNCHANGED <<params, areas, fin, scriptVars, projVars, sessionVars,
                   tabVars, sidebarVars, param_key, base_value, attempt,
                   low_multiplier, high_multiplier, low, high, profit_low,
                   profit_high, iter, tried>>

BepNext ==
    \/ BepWiden
    \/ BepAccept
    \/ BepNotFound
    \/ BepBisectStep
    \/ BepBisectReturn

SpecBep == BepInit /\ [][BepNext]_vars

----------------------------------------------------------------------------
(* The breakeven tab, src/app.py:1053-1095: calculate_bep is called, and   *)
(* called once more when the first call returned None.                     *)

\* line 1087: the base value passed to the second call
retry_base_extended(base) == RMul(base, Q(17, 10))

retry_base(base) == base

\* lines 1076-1087: the first call returned None; the second call starts
\* with the locals of lines 270-274
BepRetry ==
    /\ pc = "bep_done"
    /\ call = 1
    /\ bep_result = None
    /\ call' = 2
    /\ base_value' = retry_base(base_value)
    /\ low_multiplier' = Q(1, 2)
    /\ high_multiplier' = Q(3, 2)
    /\ attempt' = 0
    /\ low' = Unset /\ high' = Unset
    /\ profit_low' = Unset /\ profit_high' = Unset
    /\ iter' = 0 /\ bep_result' = Unset /\ evals' = 0 /\ tried' = <<>>
    /\ pc' = "bep_loop"
    /\ UNCHANGED <<params, areas, fin, scriptVars, projVars, sessionVars,
                   sidebarVars, param_key>>

TabInit == BepInit

TabNext == BepNext \/ BepRetry

SpecTab == TabInit /\ [][TabNext]_vars

----------------------------------------------------------------------------
(* One run of the script, src/app.py:795-1196, from the point where the    *)
(* params dictionary has been built, and sessions of several runs that     *)
(* share st.session_state, the widget values and the uploaded file.        *)

\* lines 79-83
calculate_additional_metrics(total_income, total_expenses, profit) ==
    [profit_margin |-> IF RGt(total_income, Zero)
                       THEN RMul(RDiv(profit, total_income), I(100))
                       ELSE Zero,
     profitability |-> IF RGt(total_expenses, Zero)
                       THEN RMul(RDiv(profit, total_expenses), I(100))
                       ELSE Zero]

\* lines 274-287: calculate_bep returns None when each of the brackets it
\* evaluates has bound profits of the same strict sign
bep_not_found(kwargs, key, base) ==
    \A k \in 0..(max_iterations - 1) :
        LET lm == RSub(Q(1, 2), RMul(I(k), multiplier_step))
            hm == RAdd(Q(3, 2), RMul(I(k), multiplier_step))
        IN  same_strict_sign(
                profit_at_param(kwargs, key, bracket_low(base, lm)),
                profit_at_param(kwargs, key, RMul(base, hm)))

\* the keys of params in insertion order: lines 795-827, then the keys
\* added by params.update(areas) at line 839
KeyOrder ==
    <<"total_area", "rental_cost_per_m2", "useful_area_ratio",
      "storage_share", "loan_share", "vip_share", "short_term_share",
      "storage_fee", "shelves_per_m2", "short_term_daily_rate",
      "item_evaluation", "item_realization_markup", "average_item_value",
      "loan_interest_rate", "realization_share_storage",
      "realization_share_loan", "realization_share_vip",
      "realization_share_short_term", "salary_expense",
      "miscellaneous_expenses", "depreciation_expense", "time_horizon",
      "monthly_rent_growth", "default_probability", "liquidity_factor",
      "safety_factor", "storage_items_density", "loan_items_density",
      "vip_items_density", "short_term_items_density", "vip_extra_fee",
      "storage_area", "loan_area", "vip_area", "short_term_area">>

\* files: the uploader is empty, or holds text that is not JSON, a JSON
\* array, or a JSON object given by its members in order
NoFile == [kind |-> "no_file", members |-> <<>>]
NotJson == [kind |-> "not_json", members |-> <<>>]
JsonArray == [kind |-> "array", members |-> <<I(1), I(2)>>]

\* line 423: json.dumps writes the members of the dict in insertion order
json_dumps(d) ==
    [kind    |-> "object",
     members |-> [i \in 1..Len(KeyOrder) |-> <<KeyOrder[i], d[KeyOrder[i]]>>]]

\* line 435: json.load raises on text that is not JSON, builds a list from
\* an array and a dict from an object (the last member of a key wins)
json_load(file) ==
    CASE file.kind = "object" ->
             LET m == file.members
                 last(k) == CHOOSE i \in DOMAIN m :
                                /\ m[i][1] = k
                                /\ \A j \in DOMAIN m : m[j][1] = k => j <= i
             IN  [type  |-> "dict",
                  value |-> [k \in {m[i][1] : i \in DOMAIN m} |->
                                 m[last(k)][2]]]
      [] file.kind = "array" -> [type |-> "list", value |-> file.members]
      [] OTHER -> [type |-> "JSONDecodeError", value |-> <<>>]

NoneValue == [type |-> "NoneType", value |-> <<>>]

\* lines 431-441
load_scenario(file) ==
    IF file.kind = "no_file"
    THEN [data |-> NoneValue, message |-> Unset]
    ELSE LET data == json_load(file)
         IN  IF data.type = "JSONDecodeError"
             THEN [data |-> NoneValue, message |-> "error"]
             ELSE [data |-> data, message |-> "success"]

\* line 1175: the truth value of the loaded object
truthy(data) ==
    CASE data.type = "dict" -> DOMAIN data.value # {}
      [] data.type = "list" -> Len(data.value) > 0
      [] OTHER -> FALSE

\* lines 1177-1196 applied to a loaded dict
apply_loaded(p, loaded) ==
    LET p1 == [k \in DOMAIN p |->
                   IF k \in DOMAIN loaded THEN loaded[k] ELSE p[k]]
        a == calculate_areas(p1.total_area, p1.useful_area_ratio, p1.shelves_per_m2, p1.storage_share, p1.loan_share, p1.vip_share, p1.short_term_share)
    IN  [params |-> a @@ p1,
         areas  |-> a,
         shares |-> [k \in ShareKeySet |->
                        IF k \in DOMAIN loaded THEN loaded[k] ELSE Zero]]

ScriptInit ==
    /\ pc = "script_areas"
    /\ disable_extended \in BOOLEAN
    /\ \E b \in BasicInputs : \E e \in ExtendedInputs(disable_extended) :
           params = b @@ e
    /\ shares = [k \in ShareKeySet |-> params[k]]
    /\ widgets = [k \in DOMAIN params \ ShareKeySet |-> params[k]]
    /\ uploaded = NoFile /\ scenario_json = NoFile
    /\ load_message = Unset /\ calls = <<>> /\ run = 1
    /\ areas = Unset /\ fin = Unset /\ metrics = Unset
    /\ inputs_valid = Unset /\ min_loan_amount = Unset /\ loan_mode = Unset
    /\ BepIdle /\ ProjIdle /\ TabIdle /\ SidebarIdle

\* lines 829-839
ScriptCalculateAreas ==
    /\ pc = "script_areas"
    /\ areas' = calculate_areas(params.total_area, params.useful_area_ratio,
                                params.shelves_per_m2, params.storage_share,
                                params.loan_share, params.vip_share,
                                params.short_term_share)
    /\ params' = areas' @@ params
    /\ calls' = Append(calls, "calculate_areas")
    /\ pc' = "script_validate"
    /\ UNCHANGED <<fin, scriptVars, projVars, bepVars, tabVars, sidebarVars,
                   shares, widgets, uploaded, scenario_json, load_message,
                   run>>

\* lines 841-844
ScriptValidate ==
    /\ pc = "script_validate"
    /\ inputs_valid' = validate_inputs(params)
    /\ pc' = IF inputs_valid' THEN "script_financials" ELSE "script_scenario"
    /\ UNCHANGED <<params, areas, fin, disable_extended, min_loan_amount,
                   loan_mode, metrics, projVars, sessionVars, bepVars,
                   tabVars, sidebarVars>>

\* lines 845-884: calculate_items, whose result is only displayed, and
\* calculate_financials
ScriptCalculateFinancials ==
    /\ pc = "script_financials"
    /\ fin' = calculate_financials([k \in FinKeys |-> params[k]])
    /\ calls' = calls \o <<"calculate_items", "calculate_financials">>
    /\ pc' = "script_metrics"
    /\ UNCHANGED <<params, areas, scriptVars, projVars, bepVars, tabVars,
                   sidebarVars, shares, widgets, uploaded, scenario_json,
                   load_message, run>>

\* lines 886-891
ScriptAdditionalMetrics ==
    /\ pc = "script_metrics"
    /\ metrics' = calculate_additional_metrics(fin.total_income,
                                               fin.total_expenses,
                                               fin.profit)
    /\ pc' = "script_min_loan"
    /\ UNCHANGED <<params, areas, fin, inputs_valid, disable_extended,
                   min_loan_amount, loan_mode, projVars, sessionVars, bepVars,
                   tabVars, sidebarVars>>

\* lines 893-904; a ZeroDivisionError ends the script run
ScriptMinLoan ==
    /\ pc = "script_min_loan"
    /\ LET r == min_loan(params, fin, disable_extended)
       IN  /\ min_loan_amount' = r.amount
           /\ loan_mode' = r.mode
           /\ pc' = IF r.amount = ZeroDivisionError
                    THEN "script_crashed" ELSE "script_tabs"
    /\ UNCHANGED <<params, areas, fin, inputs_valid, disable_extended,
                   metrics, projVars, sessionVars, bepVars, tabVars,
                   sidebarVars>>

\* lines 906-1169, the computation functions called by the tabs: the
\* projection when time_horizon > 1 (line 962), calculate_bep for the
\* storage fee (line 1054) and once more when it returned None (line 1087)
ScriptTabs ==
    /\ pc = "script_tabs"
    /\ LET kwargs == [k \in FinKeys |-> params[k]]
           projection == IF RGt(params.time_horizon, One)
                         THEN <<"project_financials">> ELSE <<>>
           retry == IF bep_not_found(kwargs, "storage_fee",
                                     params.storage_fee)
                    THEN <<"calculate_bep">> ELSE <<>>
       IN  calls' = calls \o projection \o <<"calculate_bep">> \o retry
    /\ pc' = "script_scenario"
    /\ UNCHANGED <<params, areas, fin, scriptVars, projVars, bepVars, tabVars,
                   sidebarVars, shares, widgets, uploaded, scenario_json,
                   load_message, run>>

\* lines 1171-1196: save_scenario, load_scenario and the update of params
\* and st.session_state.shares from the loaded object; loaded_params.keys()
\* raises AttributeError on a loaded list, which ends the script run
ScriptScenario ==
    /\ pc = "script_scenario"
    /\ scenario_json' = json_dumps(params)
    /\ LET r == load_scenario(uploaded)
       IN  /\ load_message' = r.message
           /\ IF truthy(r.data)
              THEN IF r.data.type = "dict"
                   THEN LET u == apply_loaded(params, r.data.value)
                        IN  /\ params' = u.params
                            /\ areas' = u.areas
                            /\ shares' = u.shares
                            /\ calls' = Append(calls, "calculate_areas")
                            /\ pc' = "script_end"
                   ELSE /\ pc' = "script_crashed"
                        /\ UNCHANGED <<params, areas, shares, calls>>
              ELSE /\ pc' = "script_end"
                   /\ UNCHANGED <<params, areas, shares, calls>>
    /\ UNCHANGED <<fin, scriptVars, projVars, bepVars, tabVars, sidebarVars,
                   widgets, uploaded, run>>

Next ==
    \/ ScriptCalculateAreas
    \/ ScriptValidate
    \/ ScriptCalculateFinancials
    \/ ScriptAdditionalMetrics
    \/ ScriptMinLoan
    \/ ScriptTabs
    \/ ScriptScenario

Init == ScriptInit

Spec == Init /\ [][Next]_vars

----------------------------------------------------------------------------
(* Sessions: the sidebar rebuilds the shares and params at the start of    *)
(* every run (src/app.py:562-617, 795-827); between two runs the user      *)
(* changes widgets or the uploaded file.                                   *)

\* lines 23-29
InitialShares ==
    [storage_share |-> Q(1, 2), loan_share |-> Q(3, 10),
     vip_share |-> Q(1, 10), short_term_share |-> Q(1, 10)]

\* lines 457-479
normalize_shares_even(sh, share_key, new_value) ==
    LET difference == RSub(One, new_value)
        remaining == IF RLt(difference, Zero) THEN Zero ELSE difference
    IN  [k \in ShareKeySet |->
            IF k = share_key THEN new_value
            ELSE RDiv(remaining, I(Len(ShareKeys) - 1))]

normalize_shares(sh, share_key, new_value) ==
    LET other(k) == IF k = share_key THEN Zero ELSE sh[k]
        total_other == RAdd(RAdd(RAdd(other(ShareKeys[1]),
                                      other(ShareKeys[2])),
                                 other(ShareKeys[3])),
                            other(ShareKeys[4]))
        difference == RSub(One, new_value)
        remaining == IF RLt(difference, Zero) THEN Zero ELSE difference
    IN  [k \in ShareKeySet |->
            IF k = share_key THEN new_value
            ELSE IF RGt(total_other, Zero)
                 THEN RMul(RDiv(sh[k], total_other), remaining)
                 ELSE Zero]

\* lines 546-582: the storage types whose checkbox leaves them enabled
EnabledShares == <<"storage_share", "loan_share">>

\* lines 562-570
zero_disabled(sh) ==
    [k \in ShareKeySet |->
        IF \E i \in DOMAIN EnabledShares : EnabledShares[i] = k
        THEN sh[k] ELSE Zero]

\* lines 590-598: the value returned by the slider of a share is the value
\* it is created with or a value set by the user
UserSliderValues == {Q(1, 2), One}

SliderValues(current) == {current} \cup UserSliderValues

\* lines 588-600: the shares left by the sliders from the i-th one on
RECURSIVE SidebarOutcomes(_, _)
SidebarOutcomes(sh, i) ==
    IF i > Len(EnabledShares) THEN {sh}
    ELSE UNION {SidebarOutcomes(normalize_shares(sh, EnabledShares[i], v),
                                i + 1) :
                v \in SliderValues(sh[EnabledShares[i]])}

MaxRuns == 3          \* script runs of a session

\* the widget values a session moves between
SessionWidgets ==
    {[k \in DOMAIN p \ ShareKeySet |-> p[k]] :
        p \in {b @@ e : b \in {x \in BasicInputs :
                                   /\ x.storage_share = Zero
                                   /\ x.loan_share = Zero
                                   /\ x.loan_interest_rate = One
                                   /\ x.storage_fee # Zero},
                        e \in ExtendedInputs(TRUE)}}

\* a scenario file edited by hand: both enabled shares set to 1 and a key
\* added that params does not have
EditedScenario(file) ==
    [kind    |-> "object",
     members |-> Append([i \in DOMAIN file.members |->
                            IF file.members[i][1]
                                   \in {"storage_share", "loan_share"}
                            THEN <<file.members[i][1], One>>
                            ELSE file.members[i]],
                        <<"note", I(7)>>)]

\* the files the user can have in the uploader for the next run
Uploads ==
    {uploaded, NoFile, NotJson, JsonArray}
    \cup (IF scenario_json.kind = "object"
          THEN {scenario_json, EditedScenario(scenario_json)} ELSE {})

SessionInit ==
    /\ pc = "script_sidebar"
    /\ disable_extended = TRUE
    /\ shares = InitialShares
    /\ widgets \in SessionWidgets
    /\ params = Unset
    /\ uploaded = NoFile /\ scenario_json = NoFile
    /\ load_message = Unset /\ calls = <<>> /\ run = 1
    /\ areas = Unset /\ fin = Unset /\ metrics = Unset
    /\ inputs_valid = Unset /\ min_loan_amount = Unset /\ loan_mode = Unset
    /\ BepIdle /\ ProjIdle /\ TabIdle /\ SidebarIdle

\* lines 562-617 and 795-827
ScriptSidebar ==
    /\ pc = "script_sidebar"
    /\ shares' \in SidebarOutcomes(zero_disabled(shares), 1)
    /\ params' = widgets @@ shares'
    /\ pc' = "script_areas"
    /\ UNCHANGED <<areas, fin, scriptVars, projVars, bepVars, tabVars,
                   sidebarVars, widgets, uploaded, scenario_json,
                   load_message, calls, run>>

\* a widget interaction or an upload after a run: the script runs again
UserInteracts ==
    /\ pc \in {"script_end", "script_crashed"}
    /\ run < MaxRuns
    /\ run' = run + 1
    /\ widgets' \in SessionWidgets
    /\ uploaded' \in Uploads
    /\ load_message' = IF uploaded' = uploaded THEN load_message ELSE Unset
    /\ params' = Unset /\ areas' = Unset /\ fin' = Unset
    /\ inputs_valid' = Unset /\ min_loan_amount' = Unset
    /\ loan_mode' = Unset /\ metrics' = Unset
    /\ calls' = <<>>
    /\ pc' = "script_sidebar"
    /\ UNCHANGED <<disable_extended, projVars, bepVars, tabVars, sidebarVars,
                   shares, scenario_json>>

SessionNext == Next \/ ScriptSidebar \/ UserInteracts

SpecSession == SessionInit /\ [][SessionNext]_vars

----------------------------------------------------------------------------
(* The sidebar of one script run step by step, src/app.py:546-609, then    *)
(* the copy of the shares into params and calculate_areas, lines 795-839.  *)
(* The uploader stays empty; a widget interaction starts the next run.     *)

MaxPasses == 2        \* script runs of the sidebar

\* lines 546-560: the four checkboxes, by the share they disable
CheckboxOf ==
    [storage_share    |-> "no_storage_for_storage",
     loan_share       |-> "no_storage_for_loan",
     vip_share        |-> "no_storage_for_vip",
     short_term_share |-> "no_storage_for_short_term"]

CheckboxKeys == {CheckboxOf[k] : k \in ShareKeySet}

\* the checkbox settings a run can have: the first n types enabled
Checkboxes ==
    {[c \in CheckboxKeys |->
         \E i \in 1..Len(ShareKeys) : CheckboxOf[ShareKeys[i]] = c /\ i > n] :
     n \in 0..Len(ShareKeys)}

\* lines 795-797 and 804: the widgets calculate_areas reads
AreaWidgets ==
    [total_area |-> I(2), useful_area_ratio |-> Q(1, 2),
     shelves_per_m2 |-> I(3)]

\* lines 574-582
storage_options(w) == SelectSeq(ShareKeys, LAMBDA k : ~w[CheckboxOf[k]])

\* lines 562-570
zero_unchecked_none(sh, w) == sh

zero_unchecked(sh, w) ==
    [k \in ShareKeySet |-> IF w[CheckboxOf[k]] THEN Zero ELSE sh[k]]

\* lines 590-598: the slider returns the value it is created with or a
\* position set by the user (min 0.0, max 100.0, step 1.0)
SliderPercents == {0, 50, 100}

slider(value) == {value} \cup {I(p) : p \in SliderPercents}

\* line 459
total_other_of(sh, share_key) ==
    LET other(k) == IF k = share_key THEN Zero ELSE sh[k]
    IN  RAdd(RAdd(RAdd(other(ShareKeys[1]), other(ShareKeys[2])),
                  other(ShareKeys[3])),
             other(ShareKeys[4]))

\* line 607: sum(st.session_state.shares.values())
share_sum(sh) ==
    RAdd(RAdd(RAdd(sh[ShareKeys[1]], sh[ShareKeys[2]]), sh[ShareKeys[3]]),
         sh[ShareKeys[4]])

\* line 600: f"{share * 100:.1f}", in tenths of a percent, for share >= 0
format_percent(share) ==
    LET n == share[1] * 1000
        d == share[2]
        q == n \div d
        r == n % d
    IN  IF 2 * r > d \/ (2 * r = d /\ q % 2 = 1) THEN q + 1 ELSE q

\* lines 606-609
remaining_share_of(sh) == RMax(RMin(RSub(One, share_sum(sh)), One), Zero)

SidebarInit ==
    /\ pc = "sidebar_zero"
    /\ shares = InitialShares
    /\ \E c \in Checkboxes : widgets = AreaWidgets @@ c
    /\ params = Unset /\ areas = Unset /\ fin = Unset
    /\ calls = <<>> /\ run = 1
    /\ disable_extended = TRUE
    /\ uploaded = NoFile /\ scenario_json = NoFile /\ load_message = Unset
    /\ inputs_valid = Unset /\ min_loan_amount = Unset /\ loan_mode = Unset
    /\ metrics = Unset
    /\ BepIdle /\ ProjIdle /\ TabIdle /\ SidebarIdle

\* lines 562-570
SidebarZero ==
    /\ pc = "sidebar_zero"
    /\ shares' = zero_unchecked(shares, widgets)
    /\ pc' = "sidebar_sliders"
    /\ UNCHANGED <<params, areas, fin, scriptVars, projVars, bepVars, tabVars,
                   sidebarVars, widgets, uploaded, scenario_json,
                   load_message, calls, run>>

\* lines 588-600: one pass of the for loop
SidebarSlider ==
    /\ pc = "sidebar_sliders"
    /\ Len(slider_log) < Len(storage_options(widgets))
    /\ LET share_key == storage_options(widgets)[Len(slider_log) + 1]
           current_share == RMul(shares[share_key], I(100))
       IN  \E new_share \in slider(current_share) :
               LET new_value == RDiv(new_share, I(100))
               IN  /\ shares' = normalize_shares(shares, share_key, new_value)
                   /\ slider_log' =
                          Append(slider_log,
                                 [share_key   |-> share_key,
                                  new_value   |-> new_value,
                                  total_other |->
                                      total_other_of(shares, share_key),
                                  displayed   |->
                                      format_percent(shares'[share_key])])
    /\ UNCHANGED <<pc, params, areas, fin, scriptVars, projVars, bepVars,
                   tabVars, remaining_share, widgets, uploaded, scenario_json,
                   load_message, calls, run>>

\* lines 583-586, 606-609 and 795-827
SidebarRemaining ==
    /\ pc = "sidebar_sliders"
    /\ Len(slider_log) = Len(storage_options(widgets))
    /\ remaining_share' = IF Len(storage_options(widgets)) = 0
                          THEN One ELSE remaining_share_of(shares)
    /\ params' = [k \in DOMAIN AreaWidgets |-> widgets[k]] @@ shares
    /\ pc' = "script_areas"
    /\ UNCHANGED <<areas, fin, scriptVars, projVars, bepVars, tabVars,
                   slider_log, shares, widgets, uploaded, scenario_json,
                   load_message, calls, run>>

\* a widget interaction after the areas are computed: the script runs again
SidebarRerun ==
    /\ pc = "script_validate"
    /\ run < MaxPasses
    /\ run' = run + 1
    /\ \E c \in Checkboxes : widgets' = AreaWidgets @@ c
    /\ params' = Unset /\ areas' = Unset /\ calls' = <<>>
    /\ slider_log' = <<>> /\ remaining_share' = Unset
    /\ pc' = "sidebar_zero"
    /\ UNCHANGED <<fin, scriptVars, projVars, bepVars, tabVars, shares,
                   uploaded, scenario_json, load_message>>

SidebarNext ==
    \/ SidebarZero
    \/ SidebarSlider
    \/ SidebarRemaining
    \/ ScriptCalculateAreas
    \/ SidebarRerun

SpecSidebar == SidebarInit /\ [][SidebarNext]_vars

----------------------------------------------------------------------------
(* project_financials, src/app.py:364-419, called at line 963 with params  *)
(* that passed validate_inputs and have time_horizon > 1; one action per   *)
(* pass of the month loop.                                                 *)

MaxHorizon == 4       \* time_horizon ranges over 2 .. MaxHorizon

ProjInputs ==
    {p \in {calculate_areas(b.total_area, b.useful_area_ratio, b.shelves_per_m2, b.storage_share, b.loan_share, b.vip_share, b.short_term_share) @@ [b EXCEPT !.rental_cost_per_m2 = r] @@ e :
                b \in {x \in BasicInputs : /\ x.loan_interest_rate = One
                                           /\ x.storage_fee = One},
                r \in {One, I(3)},
                e \in [time_horizon        : {I(t) : t \in 2..MaxHorizon},
                       monthly_rent_growth : {Q(-1, 2), Zero, Q(1, 2), One},
                       default_probability : {Zero},
                       liquidity_factor    : {One},
                       safety_factor       : {Q(6, 5)}]} :
        validate_inputs(p)}

ProjInit ==
    /\ pc = "proj_call"
    /\ params \in ProjInputs
    /\ areas = Unset /\ fin = Unset
    /\ ScriptIdle /\ BepIdle /\ ProjIdle /\ SessionIdle
    /\ TabIdle /\ SidebarIdle

\* line 366
months == params.time_horizon[1]

\* line 378: the rent grows before every month but the first
rent_grows_always(m) == TRUE

rent_grows(m) == m > 1

\* line 411: cumulative_profit += profit
accumulate_last(cumulative, profit) == profit

accumulate(cumulative, profit) == RAdd(cumulative, profit)

\* lines 366-374
ProjStart ==
    /\ pc = "proj_call"
    /\ projections' = <<>>
    /\ cumulative_profit' = Zero
    /\ current_rental_cost_per_m2' = params.rental_cost_per_m2
    /\ month' = 0
    /\ pc' = "proj_loop"
    /\ UNCHANGED <<params, areas, fin, scriptVars, sessionVars, bepVars,
                   tabVars, sidebarVars>>

\* lines 376-416: one pass of the loop, for month + 1
ProjMonth ==
    /\ pc = "proj_loop"
    /\ month < months
    /\ LET m == month + 1
           rent == IF rent_grows(m)
                   THEN RMul(current_rental_cost_per_m2,
                             RAdd(One, params.monthly_rent_growth))
                   ELSE current_rental_cost_per_m2
           financials ==
               calculate_financials(
                   [k \in FinKeys |-> IF k = "rental_cost_per_m2"
                                      THEN rent ELSE params[k]])
           total == accumulate(cumulative_profit, financials.profit)
       IN  /\ current_rental_cost_per_m2' = rent
           /\ cumulative_profit' = total
           /\ projections' =
                  Append(projections,
                         [month          |-> m,
                          total_income   |-> financials.total_income,
                          total_expenses |-> financials.total_expenses,
                          profit         |-> total])
           /\ month' = m
    /\ UNCHANGED <<pc, params, areas, fin, scriptVars, sessionVars, bepVars,
                   tabVars, sidebarVars>>

\* lines 418-419: the loop is over; the rows are returned
ProjReturn ==
    /\ pc = "proj_loop"
    /\ month = months
    /\ pc' = "proj_done"
    /\ UNCHANGED <<params, areas, fin, scriptVars, projVars, sessionVars,
                   bepVars, tabVars, sidebarVars>>

ProjNext == ProjStart \/ ProjMonth \/ ProjReturn

SpecProj == ProjInit /\ [][ProjNext]_vars

----------------------------------------------------------------------------
(* Properties of calculate_financials and calculate_areas.                 *)

\* C1: the dictionary returned by calculate_financials satisfies
\* profit = total_income - total_expenses, total_income = the sum of the five
\* income streams, and total_expenses = the sum of the four expense fields.
C1_ProfitIdentity ==
    pc = "fin_done" =>
        /\ fin.profit = RSub(fin.total_income, fin.total_expenses)
        /\ fin.total_income =
               RAdd(RAdd(RAdd(RAdd(fin.storage_income,
                                   fin.loan_income_after_realization),
                              fin.realization_income),
                         fin.vip_income),
                    fin.short_term_income)
        /\ fin.total_expenses =
               RAdd(RAdd(RAdd(fin.rental_expense, fin.salary_expense),
                         fin.miscellaneous_expenses),
                    fin.depreciation_expense)

\* a result in which all five income streams and the expenses are positive
C1_Witness ==
    /\ pc = "fin_done"
    /\ RGt(fin.storage_income, Zero)
    /\ RGt(fin.loan_income_after_realization, Zero)
    /\ RGt(fin.realization_income, Zero)
    /\ RGt(fin.vip_income, Zero)
    /\ RGt(fin.short_term_income, Zero)
    /\ RGt(fin.total_expenses, Zero)
    /\ RLt(fin.profit, fin.total_income)

SharesOf(p) == {p.storage_share, p.loan_share, p.vip_share, p.short_term_share}
SharesInRange(p) == \A x \in SharesOf(p) : RLe(Zero, x) /\ RLe(x, One)
ShareSum(p) ==
    RAdd(RAdd(RAdd(p.storage_share, p.loan_share), p.vip_share),
         p.short_term_share)
AreaSum(a) ==
    RAdd(RAdd(RAdd(a.storage_area, a.loan_area), a.vip_area),
         a.short_term_area)
\* total_area * useful_area_ratio * 2 * shelves_per_m2
Capacity(p) ==
    RMul(RMul(RMul(p.total_area, p.useful_area_ratio), I(2)), p.shelves_per_m2)

\* C2 (as stated): for any total_area, useful_area_ratio and shelves_per_m2
\* and any four shares in [0,1] with sum <= 1, the four areas sum to at most
\* total_area * useful_area_ratio * 2 * shelves_per_m2, with equality if and
\* only if the shares sum to exactly 1.
C2_Original ==
    (pc = "alloc_done" /\ SharesInRange(params) /\ RLe(ShareSum(params), One))
    => /\ RLe(AreaSum(areas), Capacity(params))
       /\ (AreaSum(areas) = Capacity(params)) <=> (ShareSum(params) = One)

\* C2 (amended): when the shelf capacity total_area * useful_area_ratio * 2 *
\* shelves_per_m2 is not negative, the four areas sum to at most the
\* capacity, with equality if and only if the shares sum to exactly 1 or the
\* capacity is 0.
C2_AllocationAdditivity ==
    (/\ pc = "alloc_done" /\ SharesInRange(params)
     /\ RLe(ShareSum(params), One) /\ RGe(Capacity(params), Zero))
    => /\ RLe(AreaSum(areas), Capacity(params))
       /\ (AreaSum(areas) = Capacity(params))
              <=> (ShareSum(params) = One \/ Capacity(params) = Zero)

\* a positive capacity that is not used up by the allocated lines
C2_Witness ==
    /\ pc = "alloc_done"
    /\ RLt(ShareSum(params), One)
    /\ RGt(params.storage_share, Zero)
    /\ RGt(params.loan_share, Zero)
    /\ RGt(Capacity(params), Zero)
    /\ RLt(AreaSum(areas), Capacity(params))

\* C9: calculate_financials called with a negative loan_interest_rate returns
\* the same loan_income_after_realization, total_income and profit as with
\* loan_interest_rate = 0, and returns loan_interest_rate = 0.
C9_LoanClamp ==
    (pc = "fin_done" /\ RLt(params.loan_interest_rate, Zero)) =>
        LET at0 == calculate_financials(
                       [params EXCEPT !.loan_interest_rate = Zero])
        IN  /\ fin.loan_income_after_realization =
                   at0.loan_income_after_realization
            /\ fin.total_income = at0.total_income
            /\ fin.profit = at0.profit
            /\ fin.loan_interest_rate = Zero

\* a negative rate on a loan line that would earn interest at a positive rate
C9_Witness ==
    /\ pc = "fin_done"
    /\ RLt(params.loan_interest_rate, Zero)
    /\ RGt(calculate_financials(
               [params EXCEPT !.loan_interest_rate = One]
           ).loan_income_after_realization, Zero)
    /\ fin.loan_interest_rate = Zero

\* C10: when loan_interest_rate is 0 the minimum-loan computation yields
\* min_loan_amount = 0 through the branch that performs no division, with
\* the extended parameters enabled and with them disabled.
C10_ZeroRateNoDivision ==
    (loan_mode # Unset /\ params.loan_interest_rate = Zero) =>
        /\ min_loan_amount = Zero
        /\ loan_mode = "basic_zero"

\* rate 0 with the extended parameters enabled and a positive storage fee
C10_Witness ==
    /\ loan_mode # Unset
    /\ params.loan_interest_rate = Zero
    /\ ~disable_extended
    /\ RGt(params.storage_fee, Zero)
    /\ min_loan_amount = Zero

----------------------------------------------------------------------------
(* Properties of calculate_bep.                                            *)

Returned == pc = "bep_done"
Accepted == tried[Len(tried)]
StrictlySameSign(x, y) ==
    (RGt(x, Zero) /\ RGt(y, Zero)) \/ (RLt(x, Zero) /\ RLt(y, Zero))

\* a plain-only allocation with no income other than the storage fee, so
\* that profit = storage_area * storage_fee - total_expenses
PlainOnly ==
    /\ param_key = "storage_fee"
    /\ RGt(params.storage_area, Zero)
    /\ params.loan_area = Zero
    /\ params.vip_area = Zero
    /\ params.short_term_area = Zero
    /\ calculate_financials(params).realization_income = Zero

\* C3: for a plain-only allocation, the value v returned by calculate_bep
\* for storage_fee gives a profit within 0.01 of zero.
C3_Original ==
    (Returned /\ PlainOnly /\ bep_result # None) =>
        RLe(RAbs(profit_at_param(params, "storage_fee", bep_result)),
            Q(1, 100))

\* C4: for a plain-only allocation with storage_area > 0, a returned value v
\* differs from total_expenses / storage_area by less than 0.01.
C4_Original ==
    (Returned /\ PlainOnly /\ bep_result # None) =>
        RLt(RAbs(RSub(bep_result,
                      RDiv(calculate_financials(params).total_expenses,
                           params.storage_area))),
            Q(1, 100))

\* C5: calculate_bep returns None exactly when the profit has the same
\* strict sign at the low and the high bound of each of the 5 brackets
\* [base * (0.5 - 0.5 k), base * (1.5 + 0.5 k)], k = 0..4.
C5_NotFoundIffNoSignChange ==
    Returned =>
        (bep_result = None <=>
            \A k \in 0..4 :
                StrictlySameSign(
                    profit_at_param(params, param_key,
                                    RMul(base_value, Q(1 - k, 2))),
                    profit_at_param(params, param_key,
                                    RMul(base_value, Q(3 + k, 2)))))

\* "not found" although the profit does depend on the parameter
C5_Witness ==
    /\ Returned /\ bep_result = None
    /\ Len(tried) = 5
    /\ tried[1].profit_low # tried[5].profit_low

\* C6: if the profit at a bound of the accepted bracket is exactly 0, that
\* bound is the value returned (stated for the brackets in which exactly one
\* bound has profit 0, where the claim names a single value).
C6_Original ==
    (Returned /\ bep_result # None) =>
        /\ (Accepted.profit_low = Zero /\ Accepted.profit_high # Zero)
               => bep_result = Accepted.low
        /\ (Accepted.profit_high = Zero /\ Accepted.profit_low # Zero)
               => bep_result = Accepted.high

\* the k-th bracket evaluated has the multipliers 0.5 - 0.5 (k-1) and
\* 1.5 + 0.5 (k-1), and is evaluated only after the one before it showed
\* the same strict sign at both bounds
BracketProgression ==
    \A k \in 1..Len(tried) :
        /\ tried[k].low_multiplier = Q(2 - k, 2)
        /\ tried[k].high_multiplier = Q(2 + k, 2)
        /\ tried[k].low = RMul(base_value, Q(2 - k, 2))
        /\ tried[k].high = RMul(base_value, Q(2 + k, 2))
        /\ k > 1 => StrictlySameSign(tried[k-1].profit_low,
                                     tried[k-1].profit_high)

\* C7 (as stated): the brackets widen by 0.5 on each side from [0.5, 1.5],
\* and in the worst case (all attempts fail) the last bracket whose bound
\* profits are evaluated is [-2.0, 4.0] times base_value.
C7_Original ==
    /\ BracketProgression
    /\ (Returned /\ bep_result = None) =>
           /\ Accepted.low_multiplier = I(-2)
           /\ Accepted.high_multiplier = I(4)

\* C7 (amended): the brackets widen by 0.5 on each side from [0.5, 1.5]; at
\* most 5 brackets are evaluated, so the widest bracket whose bound profits
\* are evaluated is [-1.5, 3.5] times base_value; the multipliers reach
\* [-2.0, 4.0] only after the fifth failed attempt and are not evaluated.
C7_BracketWidening ==
    /\ BracketProgression
    /\ Len(tried) <= 5
    /\ (Returned /\ bep_result = None) =>
           /\ Len(tried) = 5
           /\ Accepted.low_multiplier = Q(-3, 2)
           /\ Accepted.high_multiplier = Q(7, 2)
           /\ low = RMul(base_value, Q(-3, 2))
           /\ high = RMul(base_value, Q(7, 2))
           /\ low_multiplier = I(-2)
           /\ high_multiplier = I(4)

\* all five brackets tried around a positive base value
C7_Witness ==
    /\ Returned /\ bep_result = None
    /\ RGt(base_value, Zero)
    /\ Len(tried) = 5
    /\ high = RMul(base_value, Q(7, 2))

\* an upper bound on the number of steps calculate_bep can still take
Variant ==
    IF pc = "bep_done" THEN 0
    ELSE IF pc = "bep_loop" THEN 2 * (5 - attempt) + 100 + 1
    ELSE 100 - iter + 1

BisectStepTaken == pc = "bep_bisect" /\ pc' = "bep_bisect" /\ iter' = iter + 1
BisectReturnTaken == pc = "bep_bisect" /\ pc' = "bep_done"
StrictlyOpposite(x, y) ==
    (RLt(x, Zero) /\ RGt(y, Zero)) \/ (RGt(x, Zero) /\ RLt(y, Zero))

\* the stored bound profits are the profits at the current bounds, and a
\* bracket accepted with strictly opposite signs keeps strictly opposite
\* signs
RootStaysBracketed ==
    pc = "bep_bisect" =>
        /\ profit_low = profit_at_param(params, param_key, low)
        /\ profit_high = profit_at_param(params, param_key, high)
        /\ StrictlyOpposite(Accepted.profit_low, Accepted.profit_high)
               => StrictlyOpposite(profit_low, profit_high)

\* C18: in every bisection step the bound replaced by the midpoint is the one
\* whose stored profit has the same strict sign as the profit at the
\* midpoint; and a bracket accepted with strictly opposite bound profits
\* keeps stored profits that are the profits at its bounds and strictly
\* opposite.
C18_Original ==
    /\ [][BisectStepTaken =>
            IF low' # low
            THEN StrictlySameSign(profit_low, profit_low')
            ELSE StrictlySameSign(profit_high, profit_high')]_vars
    /\ []RootStaysBracketed

\* C19: an accepted bracket is left only by returning its midpoint, and only
\* when the profit at the midpoint is exactly zero, or high - low < 0.01, or
\* 100 passes have been made; with base_value > 0 every pass that does not
\* return halves high - low.
C19_BisectionReturn ==
    [][/\ BisectReturnTaken =>
              /\ bep_result' = RDiv(RAdd(low, high), I(2))
              /\ \/ profit_at_param(params, param_key, bep_result') = Zero
                 \/ RLt(RSub(high, low), tolerance)
                 \/ iter = bisect_iterations
       /\ pc = "bep_bisect" => pc' \in {"bep_bisect", "bep_done"}
       /\ (BisectStepTaken /\ RGt(base_value, Zero)) =>
              RSub(high', low') = RDiv(RSub(high, low), I(2))]_vars

\* a return after several halvings, at a midpoint whose profit is not zero
C19_Witness ==
    /\ Returned /\ bep_result # None
    /\ RGt(base_value, Zero)
    /\ iter >= 7
    /\ RLt(RSub(high, low), tolerance)
    /\ bep_result = RDiv(RAdd(low, high), I(2))
    /\ profit_at_param(params, param_key, bep_result) # Zero

\* C20: the low bound is not clamped: for a positive base_value it is 0 on
\* the second attempt and strictly negative on the third to fifth, the
\* profit recorded for it is the profit at that value, and the value
\* returned is not kept from being negative (the witness is a call that
\* returns a negative value).
C20_LowBoundNotClamped ==
    RGt(base_value, Zero) =>
        \A k \in 1..Len(tried) :
            /\ k = 2 => tried[k].low = Zero
            /\ k >= 3 => RLt(tried[k].low, Zero)
            /\ tried[k].profit_low =
                   profit_at_param(params, param_key,
                                   RMul(base_value, Q(2 - k, 2)))

\* a negative value returned as the root for a positive base value
C20_Witness ==
    /\ Returned /\ bep_result # None
    /\ RGt(base_value, Zero)
    /\ RLt(bep_result, Zero)
    /\ RLt(Accepted.low, Zero)

----------------------------------------------------------------------------
(* Properties of the script run and of the scenario files.                 *)

Validated == pc \notin {"script_sidebar", "script_areas", "script_validate"}

\* C11: for every parameter set accepted by validate_inputs, including
\* default_probability = 1 and any liquidity_factor, calculate_financials,
\* calculate_additional_metrics and the minimum-loan computation complete
\* without raising, in particular without a division by zero.
C11_Original ==
    (Validated /\ inputs_valid) =>
        /\ pc # "script_crashed"
        /\ loan_mode # Unset => min_loan_amount # ZeroDivisionError

\* C12: in a script run in which validate_inputs returns False none of
\* calculate_areas, calculate_items, calculate_financials, project_financials
\* and calculate_bep is invoked, before validation or in the scenario
\* section.
C12_Original ==
    (Validated /\ ~inputs_valid) => calls = <<>>

\* the uploaded file is the text save_scenario produces for some params
ProducedBySave(file) ==
    /\ file.kind = "object"
    /\ {file.members[i][1] : i \in DOMAIN file.members}
           = {KeyOrder[i] : i \in DOMAIN KeyOrder}
    /\ file = json_dumps(json_load(file).value)

SavedSet == json_load(uploaded).value

\* C16: loading the JSON produced by save_scenario leaves in params the
\* saved value of every saved key and in st.session_state.shares the four
\* saved shares as they are, and calculate_financials on the reloaded set
\* returns what it returns on the saved set; the script run that follows the
\* load computes the financials of the saved set.
C16_Original ==
    /\ (pc = "script_end" /\ load_message = "success"
            /\ ProducedBySave(uploaded)) =>
           /\ \A k \in DOMAIN SavedSet : params[k] = SavedSet[k]
           /\ \A k \in ShareKeySet : shares[k] = SavedSet[k]
           /\ calculate_financials([k \in FinKeys |-> params[k]])
                  = calculate_financials([k \in FinKeys |-> SavedSet[k]])
    /\ (pc = "script_metrics" /\ load_message = "success"
            /\ ProducedBySave(uploaded)) =>
           fin = calculate_financials([k \in FinKeys |-> SavedSet[k]])

\* C17: when the uploaded file is not parseable JSON, or is JSON that is not
\* a key-to-value mapping, the load reports a failure, the script run goes
\* on to its end, and params and st.session_state.shares keep their values.
C17_Original ==
    [][(pc = "script_scenario" /\ uploaded.kind \in {"not_json", "array"}) =>
           /\ load_message' = "error"
           /\ pc' = "script_end"
           /\ params' = params
           /\ shares' = shares]_vars

----------------------------------------------------------------------------
(* Properties of validate_inputs.                                          *)

OutsideUnit(x) == RLt(x, Zero) \/ RGt(x, One)

\* the conditions other than the storage fee under which the parameter set
\* is to be rejected
RejectedBesidesFee(p) ==
    \/ RLe(p.total_area, Zero)
    \/ RLe(p.rental_cost_per_m2, Zero)
    \/ OutsideUnit(p.useful_area_ratio)
    \/ \E k \in ShareKeySet : OutsideUnit(p[k])
    \/ RGt(RAdd(RAdd(RAdd(p.storage_share, p.loan_share), p.vip_share),
                p.short_term_share),
           Q(1000001, 1000000))
    \/ RLt(p.salary_expense, Zero)
    \/ RLt(p.miscellaneous_expenses, Zero)
    \/ RLt(p.depreciation_expense, Zero)
    \/ RLt(p.default_probability, Zero)

\* C13 as stated: validate_inputs returns False whenever total_area <= 0,
\* rental_cost_per_m2 <= 0 or storage_fee <= 0, or useful_area_ratio or a
\* share is outside [0, 1], or the shares sum to more than 1 + 1e-6, or
\* salary, miscellaneous or depreciation expense or default_probability is
\* negative; it returns True only when none of these holds.
C13_Original ==
    pc = "validate_done" =>
        ((RejectedBesidesFee(params) \/ RLe(params.storage_fee, Zero))
             => ~inputs_valid)

\* C13: the same with storage_fee < 0 in place of storage_fee <= 0 (a
\* storage fee of 0 is accepted).
C13_ValidationRejects ==
    pc = "validate_done" =>
        ((RejectedBesidesFee(params) \/ RLt(params.storage_fee, Zero))
             => ~inputs_valid)

\* a parameter set rejected only because its in-range shares sum to more
\* than 1 + 1e-6
C13_Witness ==
    /\ pc = "validate_done"
    /\ ~inputs_valid
    /\ validate_errors(params) = {"total_shares"}
    /\ RejectedBesidesFee(params)

----------------------------------------------------------------------------
(* Properties of project_financials.                                       *)

RECURSIVE MonthlySum(_, _)
MonthlySum(rows, k) ==
    IF k = 0 THEN Zero
    ELSE RAdd(MonthlySum(rows, k - 1),
              RSub(rows[k].total_income, rows[k].total_expenses))

RECURSIVE RPow(_, _)
RPow(x, n) == IF n = 0 THEN One ELSE RMul(x, RPow(x, n - 1))

\* the rent of month k
RentOfMonth(k) ==
    RMul(params.rental_cost_per_m2,
         RPow(RAdd(One, params.monthly_rent_growth), k - 1))

\* the amount month k adds to the cumulative profit
Increment(rows, k) ==
    IF k = 1 THEN rows[1].profit ELSE RSub(rows[k].profit, rows[k - 1].profit)

\* C14: project_financials returns time_horizon rows whose month indices
\* are 1 .. time_horizon in order, and the profit of row k is the sum over
\* the months 1 .. k of total_income - total_expenses.
C14_ProjectionRows ==
    pc = "proj_done" =>
        /\ Len(projections) = months
        /\ \A k \in 1..Len(projections) :
               /\ projections[k].month = k
               /\ projections[k].profit = MonthlySum(projections, k)

\* a projection of three months or more whose second row differs from the
\* profit of the second month alone
C14_Witness ==
    /\ pc = "proj_done"
    /\ Len(projections) >= 3
    /\ projections[2].profit
           # RSub(projections[2].total_income, projections[2].total_expenses)
    /\ projections[3].profit = MonthlySum(projections, 3)

\* C15: the rent of month k is rental_cost_per_m2 * (1 + growth)^(k-1) and
\* the row of month k is the one calculate_financials gives for that rent
\* with every other input unchanged, so all rows have the same total_income;
\* for growth > 0 the rent and total_expenses of each month strictly exceed
\* those of the month before and the increments of the cumulative profit
\* strictly decrease.
C15_RentCompounding ==
    /\ [](pc \in {"proj_loop", "proj_done"} =>
            /\ month >= 1 => current_rental_cost_per_m2 = RentOfMonth(month)
            /\ \A k \in 1..Len(projections) :
                 LET f == calculate_financials(
                              [j \in FinKeys |-> IF j = "rental_cost_per_m2"
                                                 THEN RentOfMonth(k)
                                                 ELSE params[j]])
                 IN  /\ projections[k].total_income = f.total_income
                     /\ projections[k].total_expenses = f.total_expenses
                     /\ projections[k].total_income
                            = projections[1].total_income
            /\ RGt(params.monthly_rent_growth, Zero) =>
                 \A k \in 1..(Len(projections) - 1) :
                     /\ RGt(RentOfMonth(k + 1), RentOfMonth(k))
                     /\ RGt(projections[k + 1].total_expenses,
                            projections[k].total_expenses)
                     /\ RLt(Increment(projections, k + 1),
                            Increment(projections, k)))
    /\ [][(pc = "proj_loop" /\ month >= 1 /\ month' = month + 1
               /\ RGt(params.monthly_rent_growth, Zero)) =>
              RGt(current_rental_cost_per_m2', current_rental_cost_per_m2)
         ]_vars

\* a projection of three months or more with a positive growth
C15_Witness ==
    /\ pc = "proj_done"
    /\ Len(projections) >= 3
    /\ RGt(params.monthly_rent_growth, Zero)
    /\ current_rental_cost_per_m2 = RentOfMonth(Len(projections))
    /\ RGt(current_rental_cost_per_m2, params.rental_cost_per_m2)
    /\ RLt(Increment(projections, 3), Increment(projections, 2))

----------------------------------------------------------------------------
(* Properties of calculate_bep: the returned value, base value 0, and the  *)
(* second call of the breakeven tab.                                       *)

\* C24: for base_value > 0 every value returned, other than None, lies
\* within the bracket in which the sign change was found, and so within
\* [-1.5 * base_value, 3.5 * base_value].
C24_ResultWithinBracket ==
    (Returned /\ bep_result # None /\ RGt(base_value, Zero)) =>
        /\ RLe(Accepted.low, bep_result)
        /\ RLe(bep_result, Accepted.high)
        /\ RLe(RMul(Q(-3, 2), base_value), bep_result)
        /\ RLe(bep_result, RMul(Q(7, 2), base_value))

\* a value returned from a widened bracket, outside the first bracket
C24_Witness ==
    /\ Returned /\ bep_result # None
    /\ RGt(base_value, Zero)
    /\ Len(tried) >= 3
    /\ RLe(Accepted.low, bep_result) /\ RLe(bep_result, Accepted.high)
    /\ \/ RLt(bep_result, tried[1].low)
       \/ RGt(bep_result, tried[1].high)

\* C23: with base_value = 0 every bracket is the single point 0; the call
\* returns None when the profit at 0 is not zero, after all five brackets,
\* and returns 0 when the profit at 0 is exactly zero.
C23_ZeroBaseCollapse ==
    base_value = Zero =>
        /\ \A k \in 1..Len(tried) :
               tried[k].low = Zero /\ tried[k].high = Zero
        /\ Returned =>
               IF profit_at_param(params, param_key, Zero) = Zero
               THEN bep_result # None /\ bep_result = Zero
               ELSE bep_result = None /\ Len(tried) = max_iterations

\* None returned for base value 0 although the profit changes sign between
\* the parameter values 0 and 1
C23_Witness ==
    /\ Returned /\ base_value = Zero
    /\ bep_result = None
    /\ Len(tried) = max_iterations
    /\ StrictlyOpposite(profit_at_param(params, param_key, Zero),
                        profit_at_param(params, param_key, One))

----------------------------------------------------------------------------
(* Properties of normalize_shares in the sidebar.                          *)

InUnit(x) == RLe(Zero, x) /\ RLe(x, One)

GoodShares(sh) ==
    /\ \A k \in ShareKeySet : InUnit(sh[k])
    /\ RLe(share_sum(sh), One)

\* a step that is one normalize_shares call of the slider loop
NormalizeCalled == Len(slider_log') = Len(slider_log) + 1

LastCall == slider_log[Len(slider_log)]

\* C21: from the initial shares, after any sequence of normalize_shares
\* calls with new_value in [0, 1] every share is in [0, 1] and the shares
\* sum to at most 1; a call leaves new_value in the changed key and leaves
\* at 0 every other share that was 0, so the share of a disabled type, set
\* to 0 before the sliders, stays 0.
C21_SharesStayValid ==
    /\ [](GoodShares(shares))
    /\ [](pc = "sidebar_sliders" =>
            \A k \in ShareKeySet : widgets[CheckboxOf[k]] => shares[k] = Zero)
    /\ [][(NormalizeCalled /\ GoodShares(shares)
               /\ InUnit(LastCall'.new_value)) =>
            /\ GoodShares(shares')
            /\ shares'[LastCall'.share_key] = LastCall'.new_value
            /\ \A k \in ShareKeySet \ {LastCall'.share_key} :
                   shares[k] = Zero => shares'[k] = Zero]_vars

\* in the second run a slider has changed its share while vip and short-term
\* storage are disabled
C21_Witness ==
    /\ pc = "sidebar_sliders" /\ run = 2
    /\ Len(slider_log) = 2
    /\ widgets.no_storage_for_vip /\ shares.vip_share = Zero
    /\ shares.loan_share = LastCall.new_value
    /\ shares.storage_share # InitialShares.storage_share
    /\ RGt(shares.storage_share, Zero)
    /\ RGt(shares.loan_share, Zero)

C26_Original ==
    pc = "script_validate" =>
        \A i \in 1..Len(slider_log) :
            /\ params[slider_log[i].share_key] = slider_log[i].new_value
            /\ format_percent(params[slider_log[i].share_key])
                   = slider_log[i].displayed

====
